---- MODULE Spec2Model ----
(***************************************************************************)
(* Model of the Outlook-calendar MCP server: the create-calendar-event and *)
(* get-calendar-events tool handlers (tools/calendarTools) and the Graph   *)
(* service functions they call (services/calendarEventsService), the HTTP  *)
(* JSON-RPC endpoint (McpHandler) and the SSE client registry (SseServer). *)
(* Each of the three has its own specification: Spec, RpcSpec, SseSpec;    *)
(* FetchSpec and ClockSpec are get-calendar-events alone, under fairness   *)
(* and on a server that runs for days.                                     *)
(*                                                                         *)
(* Conventions.                                                            *)
(*  - A JavaScript object is a function from its present keys to values;   *)
(*    a key whose value is undefined is an absent key (that is also what   *)
(*    JSON.stringify puts on the wire).                                    *)
(*  - A character string the code inspects (attendee addresses, weekday    *)
(*    names) is a sequence of one-character strings.                       *)
(*  - A civil date-time text "YYYY-MM-DDTHH:00:00" is <<y, m, d, h>>, a    *)
(*    date text "YYYY-MM-DD" is <<y, m, d>>, the empty string is <<>>.     *)
(*  - An instant (a JavaScript Date) is a number of hours since the epoch. *)
(*  - Zones have a fixed UTC offset in hours (no daylight saving).         *)
(***************************************************************************)
EXTENDS Integers, Sequences, FiniteSets, TLC

VARIABLES
    hostOffset,   \* UTC offset (hours) of the zone the server process runs in
    envUserId,    \* process.env.USER_ID: <<>> when unset, <<id>> when set
    envAzure,     \* the AZURE_* keys that are set in process.env
    loadedAt,     \* the instant (`now`) the schema and the tools were set up
    today,        \* the date text computed from `now` at that instant
    tomorrowStr,  \* the date text of the next day computed at that instant
    uptimeDays,   \* whole days the server has run since then
    pc,           \* "idle", "posting", "fetching", "done"
    tool,         \* name of the tool being served ("" when idle)
    req,          \* the arguments of the request being served, as sent
    posts,        \* payloads POSTed to /users/{id}/events, with their user id
    queries,      \* GET requests issued to the upstream calendarView
    pagesLeft,    \* pages the upstream still holds for the running query
    pages,        \* the pages the upstream has served for the running query
    allEvents,    \* fetchCalendarEvents: events accumulated so far
    upstream,     \* the upstream calls of the request being served: state
                  \* "none", "pending", "ok" or "failed" (with its message)
    resp,         \* <<>> or <<the tool response returned to the caller>>
    rpc,          \* McpHandler: the HTTP requests in flight, one per slot
    clock,        \* SseServer: Date.now(), in milliseconds
    conns,        \* SseServer: each connection's state and captured clientId
    clients       \* SseServer: this.clients, clientId -> connection

toolVars == <<hostOffset, envUserId, envAzure, loadedAt, today, tomorrowStr,
              uptimeDays, pc, tool, req, posts, queries, pagesLeft,
              pages, allEvents, upstream, resp>>

rpcVars == <<rpc>>

sseVars == <<clock, conns, clients>>

vars == <<toolVars, rpcVars, sseVars>>

----------------------------------------------------------------------------
(* Bounds of the model *)

\* longest attendee list a request carries
MaxAttendees == 2
\* most continuation pages the upstream serves for one query
MaxPages == 2
\* most days a server runs in the model
MaxUptimeDays == 2
\* most HTTP JSON-RPC requests in flight at once
MaxInFlight == 2
\* most SSE connections in one run
MaxConns == 3
\* last millisecond of the clock of a run
MaxClock == 2

----------------------------------------------------------------------------
(* JavaScript objects and strings *)

EmptyObj == [k \in {} |-> 0]

Has(o, k) == k \in DOMAIN o

\* ...(cond && { k: v })
Opt(cond, k, v) == IF cond THEN k :> v ELSE EmptyObj

\* the object without the keys ks (rest destructuring, unknown-key stripping)
Without(o, ks) == [k \in (DOMAIN o) \ ks |-> o[k]]

Only(o, ks) == [k \in (DOMAIN o) \cap ks |-> o[k]]

Lowers == <<"a","b","c","d","e","f","g","h","i","j","k","l","m",
            "n","o","p","q","r","s","t","u","v","w","x","y","z">>
Uppers == <<"A","B","C","D","E","F","G","H","I","J","K","L","M",
            "N","O","P","Q","R","S","T","U","V","W","X","Y","Z">>

IndexIn(c, table) ==
    IF \E i \in 1..Len(table) : table[i] = c
    THEN CHOOSE i \in 1..Len(table) : table[i] = c
    ELSE 0

\* String.prototype.toUpperCase on one character
ToUpperCase(c) == IF IndexIn(c, Lowers) > 0 THEN Uppers[IndexIn(c, Lowers)] ELSE c

\* String.prototype.toLowerCase on one character
ToLowerCase(c) == IF IndexIn(c, Uppers) > 0 THEN Lowers[IndexIn(c, Uppers)] ELSE c

MapSeq(s, F(_)) == [i \in 1..Len(s) |-> F(s[i])]

\* s.slice(1)
Slice1(s) == IF Len(s) = 0 THEN <<>> ELSE SubSeq(s, 2, Len(s))

\* s.charAt(0)
CharAt0(s) == IF Len(s) = 0 THEN <<>> ELSE <<s[1]>>

\* s.includes(c)
Includes(s, c) == \E i \in 1..Len(s) : s[i] = c

\* s.split(c)[0]
SplitHead(s, c) ==
    IF Includes(s, c)
    THEN SubSeq(s, 1, (CHOOSE i \in 1..Len(s) :
                          s[i] = c /\ \A j \in 1..(i-1) : s[j] # c) - 1)
    ELSE s

\* s.trim()
Trim(s) ==
    LET nonBlank == {i \in 1..Len(s) : s[i] # " "}
    IN  IF nonBlank = {} THEN <<>>
        ELSE SubSeq(s, CHOOSE i \in nonBlank : \A j \in nonBlank : i <= j,
                       CHOOSE i \in nonBlank : \A j \in nonBlank : i >= j)

\* xs.filter(P), order kept
FilterSeq(s, P(_)) ==
    LET kept == {i \in 1..Len(s) : P(s[i])}
        nth(k) == CHOOSE i \in kept : Cardinality({j \in kept : j <= i}) = k
    IN  [k \in 1..Cardinality(kept) |-> s[nth(k)]]

----------------------------------------------------------------------------
(* JavaScript Date, on hours *)

\* days since 1970-01-01 of the proleptic Gregorian date y-m-d; d may run
\* past the month (Date normalises overflowing fields)
DaysFromCivil(y, m, d) ==
    LET yy  == IF m <= 2 THEN y - 1 ELSE y
        era == yy \div 400
        yoe == yy - era * 400
        mp  == IF m > 2 THEN m - 3 ELSE m + 9
        doy == (153 * mp + 2) \div 5 + d - 1
        doe == yoe * 365 + yoe \div 4 - yoe \div 100 + doy
    IN  era * 146097 + doe - 719468

\* the Gregorian date <<y, m, d>> of a day number
CivilFromDays(z) ==
    LET zz  == z + 719468
        era == zz \div 146097
        doe == zz - era * 146097
        yoe == (doe - doe \div 1460 + doe \div 36524 - doe \div 146096) \div 365
        doy == doe - (365 * yoe + yoe \div 4 - yoe \div 100)
        mp  == (5 * doy + 2) \div 153
        d   == doy - (153 * mp + 2) \div 5 + 1
        m   == IF mp < 10 THEN mp + 3 ELSE mp - 9
        y   == yoe + era * 400 + (IF m <= 2 THEN 1 ELSE 0)
    IN  <<y, m, d>>

\* Date.UTC(y, m - 1, d)
DateUTC(y, m, d) == DaysFromCivil(y, m, d) * 24

\* new Date("YYYY-MM-DDTHH:00:00"): a date-time text without offset is read
\* as local time of the host zone
NewDateLocal(dt, host) == DaysFromCivil(dt[1], dt[2], dt[3]) * 24 + dt[4] - host

\* the local (host zone) calendar fields of an instant
LocalDay(t, host) == (t + host) \div 24
GetFullYear(t, host) == CivilFromDays(LocalDay(t, host))[1]
\* getMonth() + 1
GetMonth1(t, host) == CivilFromDays(LocalDay(t, host))[2]
GetDate(t, host) == CivilFromDays(LocalDay(t, host))[3]
GetHours(t, host) == (t + host) % 24
\* mutant: getUTCDay() in place of getDay()
GetDay_UTC(t, host) == ((t \div 24) + 4) % 7

\* getDay(): 0 = sunday; 1970-01-01 was a thursday
GetDay(t, host) == (LocalDay(t, host) + 4) % 7

\* new Date(y, monthIndex, d) with monthIndex = m - 1 possibly 12, d possibly 0
NewDateYMD(y, m, d, host) ==
    LET yy == y + (m - 1) \div 12
        mm == ((m - 1) % 12) + 1
    IN  (DaysFromCivil(yy, mm, 1) + d - 1) * 24 - host

\* date.setDate(n): same local month and time of day, day n (may overflow)
SetDate(t, n, host) ==
    (DaysFromCivil(GetFullYear(t, host), GetMonth1(t, host), 1) + n - 1) * 24
        + GetHours(t, host) - host

\* date.toISOString(), to the hour: the UTC fields <<y, m, d, h>>
ToISOString(t) == CivilFromDays(t \div 24) \o <<t % 24>>

\* toISOString().split('T')[0]
ISODatePart(t) == SubSeq(ToISOString(t), 1, 3)

----------------------------------------------------------------------------
(* Zones *)

\* fixed UTC offsets, in hours, of the zones of the model
ZoneOffset(z) ==
    CASE z = "Asia/Manila"     -> 8
      [] z = "UTC"             -> 0
      [] z = "America/Phoenix" -> 0 - 7

Zones == {"Asia/Manila", "UTC", "America/Phoenix"}

HostOffsets == {ZoneOffset(z) : z \in Zones}

\* date-fns-tz toZonedTime(date, zone): a Date whose local (host) fields show
\* the wall clock of the zone at that instant
ToZonedTime(t, zone, host) == t + ZoneOffset(zone) - host

----------------------------------------------------------------------------
(* services/calendarEventsService: createCalendarEvent *)

Chars(w) ==
    CASE w = "sunday"    -> <<"s","u","n","d","a","y">>
      [] w = "monday"    -> <<"m","o","n","d","a","y">>
      [] w = "tuesday"   -> <<"t","u","e","s","d","a","y">>
      [] w = "wednesday" -> <<"w","e","d","n","e","s","d","a","y">>
      [] w = "thursday"  -> <<"t","h","u","r","s","d","a","y">>
      [] w = "friday"    -> <<"f","r","i","d","a","y">>
      [] w = "saturday"  -> <<"s","a","t","u","r","d","a","y">>

\* ['sunday', ..., 'saturday'], indexed by getDay() + 1
WeekdayTable ==
    <<Chars("sunday"), Chars("monday"), Chars("tuesday"), Chars("wednesday"),
      Chars("thursday"), Chars("friday"), Chars("saturday")>>

\* mutant: the whole name upper-cased
CapitalizeDay_AllUpper(day) == MapSeq(day, ToUpperCase)

\* day.charAt(0).toUpperCase() + day.slice(1).toLowerCase()
CapitalizeDay(day) ==
    MapSeq(CharAt0(day), ToUpperCase) \o MapSeq(Slice1(day), ToLowerCase)

\* dayOfWeek.charAt(0).toUpperCase() + dayOfWeek.slice(1)
CapitalizeFirst(day) == MapSeq(CharAt0(day), ToUpperCase) \o Slice1(day)

\* the zone createCalendarEvent stamps on start, end and the recurrence range
ServiceTimeZone == "Asia/Manila"

\* ['first', 'second', 'third', 'fourth']
IndexMap == <<"first", "second", "third", "fourth">>

\* Math.ceil(day / 7)
WeekOfMonth(day) == (day + 6) \div 7

\* new Date(getFullYear(), getMonth() + 1, 0).getDate()
LastDayOfMonth(startDate, host) ==
    GetDate(NewDateYMD(GetFullYear(startDate, host),
                       GetMonth1(startDate, host) + 1, 0, host), host)

\* mutant: the week of the month alone decides, the last seven days do not
WeekIndex_ByWeekOnly(day, lastDayOfMonth) ==
    IF WeekOfMonth(day) \in 1..Len(IndexMap)
    THEN IndexMap[WeekOfMonth(day)] ELSE "last"

\* the week index of the relativeMonthly branch
WeekIndex(day, lastDayOfMonth) ==
    IF day + 7 > lastDayOfMonth THEN "last"
    ELSE IF WeekOfMonth(day) \in 1..Len(IndexMap)
         THEN IndexMap[WeekOfMonth(day)] ELSE "last"

\* the weekday of the start date, capitalised, as a one-element list
StartWeekday(startDate, host) ==
    <<CapitalizeFirst(WeekdayTable[GetDay(startDate, host) + 1])>>

\* mutant: the 'monthly' case missing from the switch
PatternFields_NoMonthlyCase(eventData, startDate, host) ==
    LET rec  == eventData.recurrence
        type == IF Has(rec, "type") THEN rec.type ELSE ""
        days == IF Has(eventData, "days_of_week")
                THEN eventData.days_of_week ELSE <<>>
    IN  CASE type = "weekly" ->
               [daysOfWeek |-> IF Len(days) > 0
                               THEN MapSeq(days, CapitalizeDay)
                               ELSE StartWeekday(startDate, host)]
          [] type = "absoluteMonthly" ->
               [dayOfMonth |-> GetDate(startDate, host)]
          [] type = "relativeMonthly" ->
               [daysOfWeek |-> StartWeekday(startDate, host),
                index |-> WeekIndex(GetDate(startDate, host),
                                    LastDayOfMonth(startDate, host))]
          [] OTHER -> EmptyObj

\* the switch on recurrence.type: the fields added to (or overwritten in)
\* the pattern { type, interval }
PatternFields(eventData, startDate, host) ==
    LET rec  == eventData.recurrence
        type == IF Has(rec, "type") THEN rec.type ELSE ""
        days == IF Has(eventData, "days_of_week")
                THEN eventData.days_of_week ELSE <<>>
    IN  CASE type = "weekly" ->
               [daysOfWeek |-> IF Len(days) > 0
                               THEN MapSeq(days, CapitalizeDay)
                               ELSE StartWeekday(startDate, host)]
          [] type = "absoluteMonthly" ->
               [dayOfMonth |-> GetDate(startDate, host)]
          [] type = "relativeMonthly" ->
               [daysOfWeek |-> StartWeekday(startDate, host),
                index |-> WeekIndex(GetDate(startDate, host),
                                    LastDayOfMonth(startDate, host))]
          [] type = "monthly" ->
               [type |-> "absoluteMonthly",
                dayOfMonth |-> GetDate(startDate, host)]
          [] OTHER -> EmptyObj

\* pattern as put in eventPayload.recurrence
RecurrencePattern(eventData, host) ==
    LET rec       == eventData.recurrence
        startDate == NewDateLocal(eventData.start_datetime, host)
        pattern   == PatternFields(eventData, startDate, host)
                     @@ Opt(Has(rec, "type"), "type", rec.type)
                     @@ [interval |-> IF Has(rec, "interval") /\ rec.interval # 0
                                      THEN rec.interval ELSE 1]
    IN  Only(pattern, {"type", "interval", "daysOfWeek", "index"})
        @@ Opt(Has(pattern, "dayOfMonth") /\ pattern.dayOfMonth # 0,
               "dayOfMonth", pattern.dayOfMonth)

\* range.startDate
RangeStartDate(start_datetime, host) ==
    ISODatePart(NewDateLocal(start_datetime, host))

\* range as put in eventPayload.recurrence
RecurrenceRange(eventData, host) ==
    LET rec        == eventData.recurrence
        range_type == IF Has(rec, "range_type") THEN rec.range_type ELSE ""
        range ==
            Opt(Has(rec, "range_type"), "type", range_type)
            @@ [startDate |-> RangeStartDate(eventData.start_datetime, host),
                recurrenceTimeZone |-> ServiceTimeZone]
            @@ (IF range_type = "endDate" /\ Has(rec, "end_date")
                   /\ Len(rec.end_date) > 0
                THEN [endDate |-> rec.end_date]
                ELSE IF range_type = "numbered"
                        /\ Has(rec, "number_of_occurrences")
                        /\ rec.number_of_occurrences # 0
                THEN [numberOfOccurrences |-> rec.number_of_occurrences]
                ELSE EmptyObj)
    IN  Only(range, {"type", "startDate", "recurrenceTimeZone"})
        @@ Opt(Has(range, "endDate") /\ Len(range.endDate) > 0,
               "endDate", range.endDate)
        @@ Opt(Has(range, "numberOfOccurrences") /\ range.numberOfOccurrences # 0,
               "numberOfOccurrences", range.numberOfOccurrences)

\* email.includes('@')
IsAddress(email) == Includes(email, "@")

\* mutant: the address is not trimmed
AttendeeEntry_NoTrim(email) ==
    [emailAddress |-> [address |-> email, name |-> SplitHead(email, "@")],
     type |-> "required"]

\* one entry of eventPayload.attendees
AttendeeEntry(email) ==
    [emailAddress |-> [address |-> Trim(email),
                       name    |-> SplitHead(Trim(email), "@")],
     type |-> "required"]

\* eventPayload.attendees
PayloadAttendees(attendees) == MapSeq(FilterSeq(attendees, IsAddress), AttendeeEntry)

\* the message createCalendarEvent throws before it posts, "" when it posts
CreateValidationError(eventData) ==
    IF (~Has(eventData, "subject")) \/ eventData.subject = ""
    THEN "Event subject is required"
    ELSE IF (~Has(eventData, "start_datetime")) \/ eventData.start_datetime = <<>>
            \/ (~Has(eventData, "end_datetime")) \/ eventData.end_datetime = <<>>
    THEN "Event start and end times are required"
    ELSE ""

\* eventPayload, for event data that passes CreateValidationError
EventPayload(eventData, host) ==
    [subject |-> eventData.subject,
     body    |-> [contentType |-> "html",
                  content |-> IF Has(eventData.body, "content")
                              THEN eventData.body.content ELSE ""],
     start   |-> [dateTime |-> eventData.start_datetime, timeZone |-> ServiceTimeZone],
     end     |-> [dateTime |-> eventData.end_datetime, timeZone |-> ServiceTimeZone],
     importance |-> IF Has(eventData, "importance") /\ eventData.importance # ""
                    THEN eventData.importance ELSE "normal",
     responseRequested |-> TRUE]
    @@ Opt(Has(eventData, "is_online_meeting"), "isOnlineMeeting",
           eventData.is_online_meeting)
    @@ Opt(Has(eventData, "location") /\ eventData.location # "", "location",
           [displayName |-> eventData.location])
    @@ Opt(Has(eventData, "attendees") /\ Len(eventData.attendees) > 0, "attendees",
           PayloadAttendees(eventData.attendees))
    @@ Opt(Has(eventData, "recurrence"), "recurrence",
           [pattern |-> RecurrencePattern(eventData, host),
            range   |-> RecurrenceRange(eventData, host)])

----------------------------------------------------------------------------
(* schemas/createEventSchema and tools/calendarTools: create-calendar-event *)

\* the keys of createEventToolSchema; the registry parses the arguments with
\* z.object(schema), which drops every other key
CreateSchemaKeys ==
    {"user_id", "subject", "content", "timezone", "start_datetime",
     "end_datetime", "is_online_meeting", "attendees", "location", "importance",
     "is_recurring", "recurrence_type", "days_of_week", "recurrence_interval",
     "recurrence_range_type", "recurrence_end_date", "recurrence_occurrences"}

\* the defaults of the keys declared .default(v); a key declared
\* .default(v).optional() stays absent when the caller omits it.  The
\* defaults of timezone, start_datetime and end_datetime depend on the host
\* clock and zone: the requests of the model always carry these three keys.
CreateSchemaDefaults ==
    [user_id           |-> "me",
     subject           |-> "Team Sync Meeting",
     content           |-> "<p>This is a scheduled team meeting.</p>",
     is_online_meeting |-> TRUE,
     attendees         |-> << <<"t","@","e">> >>,
     location          |-> "Microsoft Teams Meeting",
     importance        |-> "Normal",
     is_recurring      |-> FALSE]

\* the arguments the handler receives for a request the schema accepts
CreateSchemaParse(raw) == Only(raw, CreateSchemaKeys) @@ CreateSchemaDefaults

\* the recurrence object the handler builds when is_recurring
HandlerRecurrence(args) ==
    LET range_type == IF Has(args, "recurrence_range_type")
                      THEN args.recurrence_range_type ELSE ""
        type       == IF Has(args, "recurrence_type")
                      THEN args.recurrence_type ELSE ""
    IN  Opt(Has(args, "recurrence_type"), "type", type)
        @@ [interval |-> IF Has(args, "recurrence_interval")
                            /\ args.recurrence_interval # 0
                         THEN args.recurrence_interval ELSE 1]
        @@ Opt(Has(args, "recurrence_range_type"), "range_type", range_type)
        @@ Opt(range_type = "endDate" /\ Has(args, "recurrence_end_date")
                 /\ Len(args.recurrence_end_date) > 0,
               "end_date", args.recurrence_end_date)
        @@ Opt(range_type = "numbered" /\ Has(args, "recurrence_occurrences")
                 /\ args.recurrence_occurrences # 0,
               "number_of_occurrences", args.recurrence_occurrences)
        @@ (IF type = "weekly" /\ Has(args, "days_of_week")
                 /\ Len(args.days_of_week) > 0
            THEN [days_of_week |-> args.days_of_week]
            ELSE IF type = "absoluteMonthly" /\ Has(args, "month_day")
                      /\ args.month_day # 0
            THEN [month_day |-> args.month_day]
            ELSE IF type = "relativeMonthly" /\ Has(args, "week_day")
                      /\ Has(args, "week_index")
            THEN [week_day |-> args.week_day, week_index |-> args.week_index]
            ELSE EmptyObj)

\* attendeeList
HandlerAttendees(args) ==
    IF Has(args, "attendees") THEN FilterSeq(args.attendees, IsAddress) ELSE <<>>

\* mutant: the recurrence is built whenever a recurrence type came along
CleanEventData_IgnoresFlag(args) ==
    [body |-> [contentType |-> "html"]
              @@ Opt(Has(args, "content"), "content", args.content)]
    @@ Only(args, {"subject", "start_datetime", "end_datetime",
                   "is_online_meeting", "location", "importance"})
    @@ Opt(Len(HandlerAttendees(args)) > 0, "attendees", HandlerAttendees(args))
    @@ Opt(Has(args, "days_of_week"), "days_of_week", args.days_of_week)
    @@ Opt(args.is_recurring \/ Has(args, "recurrence_type"), "recurrence",
           HandlerRecurrence(args))

\* cleanEventData, the event data handed to createCalendarEvent
CleanEventData(args) ==
    [body |-> [contentType |-> "html"]
              @@ Opt(Has(args, "content"), "content", args.content)]
    @@ Only(args, {"subject", "start_datetime", "end_datetime",
                   "is_online_meeting", "location", "importance"})
    @@ Opt(Len(HandlerAttendees(args)) > 0, "attendees", HandlerAttendees(args))
    @@ Opt(Has(args, "days_of_week"), "days_of_week", args.days_of_week)
    @@ Opt(args.is_recurring, "recurrence", HandlerRecurrence(args))

\* responses of the create-calendar-event handler
UserIdUnsetResponse ==
    [content |-> <<[type |-> "text",
                    text |-> <<"Error: ", "USER_ID is not set in .env file">>]>>]

\* the error response without its metadata block
CreateErrorResponse_NoMeta(message) ==
    [content |-> <<[type |-> "text",
                    text |-> <<"Error creating calendar event: ", message>>]>>]

CreateErrorResponse(message) ==
    [content |-> <<[type |-> "text",
                    text |-> <<"Error creating calendar event: ", message>>]>>,
     _meta   |-> [error |-> TRUE, errorMessage |-> message]]

CreateSuccessResponse(event) ==
    [content |-> <<[type |-> "text",
                    text |-> <<"Event created successfully!", event.subject>>]>>,
     _meta   |-> [event |-> event, success |-> TRUE]]

----------------------------------------------------------------------------
(* utils/helpers, schemas/fetchCalendarEventsSchema and tools/calendarTools: *)
(* get-calendar-events                                                     *)

\* parseDateInput(dateStr, timezone): the date at 00:00 UTC, passed through
\* toZonedTime
ParseDateInput(dateStr, timezone, host) ==
    ToZonedTime(DateUTC(dateStr[1], dateStr[2], dateStr[3]), timezone, host)

FetchSchemaKeys == {"user_id", "start_date", "end_date", "timezone"}

\* const today = now.toISOString().split('T')[0]
Today(now) == ISODatePart(now)

\* tomorrow.setDate(tomorrow.getDate() + 1); tomorrow.toISOString().split('T')[0]
TomorrowStr(now, host) == ISODatePart(SetDate(now, GetDate(now, host) + 1, host))

\* the defaults of start_date and end_date are the two values above, fixed
\* when the schema module loads; registerCalendarTools computes the same two
\* values for the defaults of the handler's destructuring
FetchSchemaDefaults ==
    [user_id |-> "me", start_date |-> today, end_date |-> tomorrowStr,
     timezone |-> "Asia/Manila"]

FetchSchemaParse(raw) == Only(raw, FetchSchemaKeys) @@ FetchSchemaDefaults

\* endDate.setDate(endDate.getDate() + 1)
AddOneDay(t, host) == SetDate(t, GetDate(t, host) + 1, host)

\* the query of the initial calendarView request
CalendarViewQuery(user, args, host) ==
    [user          |-> user,
     startDateTime |-> ToISOString(ParseDateInput(args.start_date, args.timezone, host)),
     endDateTime   |-> ToISOString(AddOneDay(
                           ParseDateInput(args.end_date, args.timezone, host), host)),
     top           |-> 100]

\* formatCalendarEvents, on the fields the model keeps of an event
FormatCalendarEvents(events) ==
    MapSeq(events, LAMBDA e : [id |-> e.id,
                               subject |-> IF e.subject = "" THEN "No subject"
                                           ELSE e.subject])

FetchErrorResponse(message) ==
    [content |-> <<[type |-> "text", text |-> <<"Error: ", message>>]>>]

\* `data:application/json,${encodeURIComponent(JSON.stringify(data))}`: the
\* prefix and the value the text after it encodes
DataUri(data) == <<"data:application/json,", data>>

FetchSuccessResponse(events, args) ==
    LET formatted == FormatCalendarEvents(events)
    IN  [content |->
           <<[type |-> "text",
              text |-> <<"Found", Len(formatted), args.start_date, args.end_date>>],
             [type |-> "resource",
              resource |-> [text |-> "Detailed Calendar Events",
                            uri  |-> DataUri([count |-> Len(formatted),
                                              events |-> formatted]),
                            mimeType |-> "application/json"]],
             [type |-> "resource",
              resource |-> [text |-> "Raw Events (Debug)",
                            uri  |-> DataUri(events),
                            mimeType |-> "application/json"]],
             [type |-> "resource",
              resource |-> [text |-> "Formatted Events (Debug)",
                            uri  |-> DataUri(formatted),
                            mimeType |-> "application/json"]]>>]

----------------------------------------------------------------------------
(* The requests of the model *)

Override(base, o) == o @@ base

\* the months start dates are drawn from: 28, 29, 30 and 31 days
StartMonths == {<<2025, 2>>, <<2024, 2>>, <<2025, 6>>, <<2025, 7>>}

DaysIn(ym) == DaysFromCivil(ym[1], ym[2] + 1, 1) - DaysFromCivil(ym[1], ym[2], 1)

\* early and late in the day: with a host east (west) of UTC the early (late)
\* hour falls on the neighbouring UTC date
StartHours == {3, 20}

AllStarts == {<<ym[1], ym[2], d, h>> : ym \in StartMonths, d \in 1..31, h \in StartHours}

Starts == {s \in AllStarts : s[3] <= DaysIn(<<s[1], s[2]>>)}

\* one week of starts
WeekStarts == {s \in Starts : s[1] = 2025 /\ s[2] = 7 /\ s[3] \in 6..12}

FewStarts == {<<2025, 7, 7, 3>>, <<2025, 8, 31, 20>>, <<2025, 12, 31, 20>>}

RecurrenceTypes ==
    {"daily", "weekly", "monthly", "yearly", "absoluteMonthly",
     "relativeMonthly", "absoluteYearly", "relativeYearly"}

RangeTypes == {"endDate", "noEnd", "numbered"}

\* "" (or <<>>, or 0) in these sets stands for "the caller omits the key"
DaysLists ==
    {<<>>,
     <<Chars("monday"), Chars("wednesday"), Chars("friday")>>,
     <<Chars("sunday")>>,
     <<Chars("saturday"), Chars("tuesday")>>}

EndDates == {<<>>, <<2025, 12, 31>>, <<2025, 1, 1>>}

AddressTexts ==
    {<<"a", "@", "x">>, <<" ", "a", "@", "x", " ">>, <<"a", "x">>, <<>>,
     <<"@", "x">>, <<"b", "@", "y", "@", "z">>, <<" ">>}

RECURSIVE SeqsUpTo(_, _)
SeqsUpTo(S, n) ==
    IF n = 0 THEN {<<>>}
    ELSE LET shorter == SeqsUpTo(S, n - 1)
         IN  shorter \cup {Append(q, x) : q \in {r \in shorter : Len(r) = n - 1}, x \in S}

BaseCreate ==
    [user_id |-> "u1", subject |-> "Sync", timezone |-> "Asia/Manila",
     start_datetime |-> <<2025, 7, 7, 10>>, end_datetime |-> <<2025, 7, 7, 11>>,
     attendees |-> <<>>, is_recurring |-> TRUE, recurrence_range_type |-> "noEnd"]

\* every start, every recurrence type (or none)
PatternRequests ==
    {Override(BaseCreate,
              [start_datetime |-> s, end_datetime |-> s]
              @@ Opt(t # "", "recurrence_type", t)) :
        s \in Starts, t \in RecurrenceTypes \cup {""}}

\* weekly and monthly requests with days_of_week and month_day sent or not
DaysRequests ==
    {Override(BaseCreate,
              [start_datetime |-> s, end_datetime |-> s, recurrence_type |-> t]
              @@ Opt(sendDays, "days_of_week", days)
              @@ Opt(md # 0, "month_day", md)) :
        s \in WeekStarts, t \in {"weekly", "absoluteMonthly", "monthly"},
        sendDays \in BOOLEAN, days \in DaysLists, md \in {0, 5}}

\* every range, with and without its end date and count, in every zone
RangeRequests ==
    {Override(Without(BaseCreate, {"recurrence_range_type"}),
              [start_datetime |-> s, end_datetime |-> s, timezone |-> z,
               recurrence_type |-> t]
              @@ Opt(rt # "", "recurrence_range_type", rt)
              @@ Opt(sendEnd, "recurrence_end_date", e)
              @@ Opt(n # 0, "recurrence_occurrences", n)) :
        s \in FewStarts, z \in Zones, t \in {"daily", "weekly"},
        rt \in RangeTypes \cup {""}, sendEnd \in BOOLEAN, e \in EndDates,
        n \in {0, 5}}

\* is_recurring false or omitted, with every recurrence argument sent or not
PlainRequests ==
    {Override(Without(BaseCreate, {"recurrence_range_type", "is_recurring"}),
              Opt(sendFlag, "is_recurring", FALSE)
              @@ Opt(t # "", "recurrence_type", t)
              @@ Opt(rt # "", "recurrence_range_type", rt)
              @@ Opt(e # <<>>, "recurrence_end_date", e)
              @@ Opt(n # 0, "recurrence_occurrences", n)
              @@ Opt(sendDays, "days_of_week", days)) :
        sendFlag \in BOOLEAN, t \in RecurrenceTypes \cup {""},
        rt \in RangeTypes \cup {""}, e \in {<<>>, <<2025, 12, 31>>},
        n \in {0, 5}, sendDays \in BOOLEAN,
        days \in {<<>>, <<Chars("monday"), Chars("wednesday"), Chars("friday")>>}}

\* attendee lists
AttendeeRequests ==
    {Override(BaseCreate, [is_recurring |-> r, attendees |-> a]) :
        r \in BOOLEAN, a \in SeqsUpTo(AddressTexts, MaxAttendees)}

\* identity, required fields and omitted keys
BasicRequests ==
    {Override(Without(BaseCreate, omitted),
              [user_id |-> u, subject |-> subj, start_datetime |-> s]) :
        u \in {"me", "u1"}, subj \in {"", "Sync"},
        s \in {<<>>, <<2025, 7, 7, 10>>},
        omitted \in {{}, {"is_recurring"}, {"attendees"}, {"user_id", "subject"}}}

\* the schema's importance values; "" stands for "the caller omits the key"
Importances == {"", "Low", "Normal", "High"}

\* single events whose end is after, at and before their start, with every
\* importance
OrderRequests ==
    {Override(BaseCreate,
              [is_recurring |-> FALSE, start_datetime |-> s, end_datetime |-> e]
              @@ Opt(imp # "", "importance", imp)) :
        s \in {<<2025, 7, 7, 10>>, <<2025, 7, 7, 11>>},
        e \in {<<2025, 7, 6, 11>>, <<2025, 7, 7, 10>>, <<2025, 7, 7, 11>>},
        imp \in Importances}

CreateRequests ==
    PatternRequests \cup DaysRequests \cup RangeRequests \cup PlainRequests
        \cup AttendeeRequests \cup BasicRequests \cup OrderRequests

FetchDates ==
    {<<2025, 7, 1>>, <<2025, 7, 2>>, <<2025, 2, 28>>, <<2024, 2, 28>>,
     <<2025, 12, 31>>}

\* requests that carry both dates
DatedRequests ==
    {[start_date |-> a, end_date |-> b] @@ Opt(u # "", "user_id", u)
        @@ Opt(z # "", "timezone", z) :
        a \in FetchDates, b \in FetchDates, u \in {"", "me", "u1"},
        z \in Zones \cup {""}}

\* requests that leave both dates to their defaults
UndatedRequests ==
    {Opt(u # "", "user_id", u) @@ Opt(z # "", "timezone", z) :
        u \in {"", "me", "u1"}, z \in Zones \cup {""}}

FetchRequests == DatedRequests \cup UndatedRequests

\* what the upstream may hold on one page of a calendar view
PageValues == {<<>>, <<[id |-> 1, subject |-> "Standup"]>>,
               <<[id |-> 2, subject |-> ""]>>}

----------------------------------------------------------------------------
(* The server *)

\* services/authService: getAzureCredentials
AzureKeys == {"AZURE_TENANT_ID", "AZURE_CLIENT_ID", "AZURE_CLIENT_SECRET"}

\* the environments of the model: all the keys, the secret missing, none
AzureConfigs == {AzureKeys, AzureKeys \ {"AZURE_CLIENT_SECRET"}, {}}

\* if (!tenantId || !clientId || !clientSecret) throw new Error(...)
CredentialsMissing == envAzure # AzureKeys

\* the message of that error: its text names the three keys, always
MissingCredentialsMessage ==
    <<"Missing required Azure AD credentials. Please set ",
      <<"AZURE_TENANT_ID", "AZURE_CLIENT_ID", "AZURE_CLIENT_SECRET">>,
      " environment variables.">>

\* the instants a server of the model is started at: 2025-06-30T20:00Z, which
\* is the 30th of June west of UTC and the 1st of July in Manila
LoadInstants == {DateUTC(2025, 6, 30) + 20}

\* the messages of the errors of the upstream (a 4xx, a 5xx, the network)
UpstreamErrors == {"Bad Request", "Service Unavailable", "fetch failed"}

\* a slot of the HTTP endpoint with no request in it
FreeSlot == [pc |-> "free"]

\* the connections of the model: none has connected yet
NoConnections == [c \in 1..MaxConns |-> [state |-> "new"]]

Init ==
    /\ hostOffset \in HostOffsets
    /\ envUserId \in {<<>>, <<"u0">>}
    /\ envAzure \in AzureConfigs
    /\ loadedAt \in LoadInstants
    /\ today = Today(loadedAt)
    /\ tomorrowStr = TomorrowStr(loadedAt, hostOffset)
    /\ uptimeDays = 0
    /\ pc = "idle"
    /\ tool = ""
    /\ req = EmptyObj
    /\ posts = <<>>
    /\ queries = <<>>
    /\ pagesLeft = 0
    /\ pages = <<>>
    /\ allEvents = <<>>
    /\ upstream = [state |-> "none"]
    /\ resp = <<>>
    /\ rpc = [s \in 1..MaxInFlight |-> FreeSlot]
    /\ clock = 0
    /\ conns = NoConnections
    /\ clients = EmptyObj

\* if (user_id === 'me') { if (!process.env.USER_ID) return ...; user_id = ... }
UserIdUnset(user_id) == user_id = "me" /\ envUserId = <<>>

ResolveUserId_KeepsMe(user_id) == user_id

ResolveUserId(user_id) == IF user_id = "me" THEN envUserId[1] ELSE user_id

\* the create-calendar-event handler, from the call to the upstream POST (or
\* to the response, when it returns before posting)
CreateCalendarEvent ==
    /\ pc = "idle"
    /\ \E raw \in CreateRequests :
         LET args == CreateSchemaParse(raw)
             data == CleanEventData(args)
             err  == CreateValidationError(data)
         IN  /\ req' = raw
             /\ tool' = "create-calendar-event"
             /\ IF UserIdUnset(args.user_id)
                THEN /\ resp' = <<UserIdUnsetResponse>>
                     /\ pc' = "done"
                     /\ UNCHANGED <<posts, upstream>>
                ELSE IF CredentialsMissing
                THEN /\ resp' = <<CreateErrorResponse(MissingCredentialsMessage)>>
                     /\ pc' = "done"
                     /\ UNCHANGED <<posts, upstream>>
                ELSE IF err # ""
                THEN /\ resp' = <<CreateErrorResponse(
                                     <<"Failed to create calendar event: ", err>>)>>
                     /\ pc' = "done"
                     /\ UNCHANGED <<posts, upstream>>
                ELSE /\ posts' = Append(posts,
                                   [user    |-> ResolveUserId(args.user_id),
                                    payload |-> EventPayload(data, hostOffset)])
                     /\ upstream' = [state |-> "pending"]
                     /\ pc' = "posting"
                     /\ resp' = resp
    /\ UNCHANGED <<hostOffset, envUserId, envAzure, loadedAt, today, tomorrowStr, uptimeDays,
                   queries, pagesLeft, pages, allEvents>>
    /\ UNCHANGED <<rpcVars, sseVars>>

\* the upstream answers the POST with the created event
PostSucceeds ==
    /\ pc = "posting"
    /\ upstream' = [state |-> "ok"]
    /\ resp' = <<CreateSuccessResponse(posts[Len(posts)].payload)>>
    /\ pc' = "done"
    /\ UNCHANGED <<hostOffset, envUserId, envAzure, loadedAt, today, tomorrowStr, uptimeDays,
                   tool, req, posts, queries, pagesLeft,
                   pages, allEvents>>
    /\ UNCHANGED <<rpcVars, sseVars>>

\* the upstream POST fails: createCalendarEvent rethrows, the handler catches
PostFails ==
    /\ pc = "posting"
    /\ \E message \in UpstreamErrors :
         /\ upstream' = [state |-> "failed", message |-> message]
         /\ resp' = <<CreateErrorResponse(
                         <<"Failed to create calendar event: ", message>>)>>
    /\ pc' = "done"
    /\ UNCHANGED <<hostOffset, envUserId, envAzure, loadedAt, today, tomorrowStr, uptimeDays,
                   tool, req, posts, queries, pagesLeft,
                   pages, allEvents>>
    /\ UNCHANGED <<rpcVars, sseVars>>

\* the get-calendar-events handler, from the call to the first calendarView
\* request
GetCalendarEvents ==
    /\ pc = "idle"
    /\ \E raw \in FetchRequests :
         LET args == FetchSchemaParse(raw)
         IN  /\ req' = raw
             /\ tool' = "get-calendar-events"
             /\ IF UserIdUnset(args.user_id)
                THEN /\ resp' = <<UserIdUnsetResponse>>
                     /\ pc' = "done"
                     /\ UNCHANGED <<queries, pagesLeft, upstream>>
                ELSE IF CredentialsMissing
                THEN /\ resp' = <<FetchErrorResponse(MissingCredentialsMessage)>>
                     /\ pc' = "done"
                     /\ UNCHANGED <<queries, pagesLeft, upstream>>
                ELSE /\ queries' = Append(queries,
                            CalendarViewQuery(ResolveUserId(args.user_id), args,
                                              hostOffset))
                     /\ pagesLeft' \in 0..MaxPages
                     /\ upstream' = [state |-> "pending"]
                     /\ pc' = "fetching"
                     /\ resp' = resp
    /\ UNCHANGED <<hostOffset, envUserId, envAzure, loadedAt, today, tomorrowStr, uptimeDays,
                   posts, pages, allEvents>>
    /\ UNCHANGED <<rpcVars, sseVars>>

\* the response of the upstream to the running request: a page of events,
\* with an "@odata.nextLink" while the upstream holds more pages
PageResponse(value) ==
    [value |-> value] @@ Opt(pagesLeft > 0, "nextLink", Len(queries))

\* fetchCalendarEvents stopping after the first page
PageArrives_FirstPageOnly ==
    /\ pc = "fetching"
    /\ \E value \in PageValues :
         LET response == PageResponse(value)
         IN  /\ pages' = Append(pages, response)
             /\ allEvents' = allEvents \o response.value
             /\ upstream' = [state |-> "ok"]
             /\ resp' = <<FetchSuccessResponse(allEvents', FetchSchemaParse(req))>>
             /\ pc' = "done"
             /\ UNCHANGED <<queries, pagesLeft>>
    /\ UNCHANGED <<hostOffset, envUserId, envAzure, loadedAt, today, tomorrowStr, uptimeDays,
                   tool, req, posts>>
    /\ UNCHANGED <<rpcVars, sseVars>>

\* a page arrives: its events are appended; with a nextLink the next page is
\* requested, without one the handler formats the events and returns
PageArrives ==
    /\ pc = "fetching"
    /\ \E value \in PageValues :
         LET response == PageResponse(value)
         IN  /\ pages' = Append(pages, response)
             /\ allEvents' = allEvents \o response.value
             /\ IF Has(response, "nextLink")
                THEN /\ queries' = Append(queries, [nextLink |-> response.nextLink])
                     /\ pagesLeft' = pagesLeft - 1
                     /\ UNCHANGED <<pc, upstream, resp>>
                ELSE /\ upstream' = [state |-> "ok"]
                     /\ resp' = <<FetchSuccessResponse(allEvents',
                                                       FetchSchemaParse(req))>>
                     /\ pc' = "done"
                     /\ UNCHANGED <<queries, pagesLeft>>
    /\ UNCHANGED <<hostOffset, envUserId, envAzure, loadedAt, today, tomorrowStr, uptimeDays,
                   tool, req, posts>>
    /\ UNCHANGED <<rpcVars, sseVars>>

\* a page request fails: fetchCalendarEvents rethrows, the handler catches
PageFails ==
    /\ pc = "fetching"
    /\ \E message \in UpstreamErrors :
         /\ upstream' = [state |-> "failed", message |-> message]
         /\ resp' = <<FetchErrorResponse(
                         <<"Failed to fetch calendar events: ", message>>)>>
    /\ pc' = "done"
    /\ UNCHANGED <<hostOffset, envUserId, envAzure, loadedAt, today, tomorrowStr, uptimeDays,
                   tool, req, posts, queries, pagesLeft,
                   pages, allEvents>>
    /\ UNCHANGED <<rpcVars, sseVars>>

\* the response goes back to the caller; the handler keeps nothing
Deliver ==
    /\ pc = "done"
    /\ pc' = "idle"
    /\ tool' = ""
    /\ req' = EmptyObj
    /\ posts' = <<>>
    /\ queries' = <<>>
    /\ pagesLeft' = 0
    /\ pages' = <<>>
    /\ allEvents' = <<>>
    /\ upstream' = [state |-> "none"]
    /\ resp' = <<>>
    /\ UNCHANGED <<hostOffset, envUserId, envAzure, loadedAt, today, tomorrowStr, uptimeDays>>
    /\ UNCHANGED <<rpcVars, sseVars>>

Next ==
    \/ CreateCalendarEvent
    \/ PostSucceeds
    \/ PostFails
    \/ GetCalendarEvents
    \/ PageArrives
    \/ PageFails
    \/ Deliver

Spec == Init /\ [][Next]_vars

\* the server keeps running between two requests: a day goes by
DayPasses ==
    /\ pc = "idle"
    /\ uptimeDays < MaxUptimeDays
    /\ uptimeDays' = uptimeDays + 1
    /\ UNCHANGED <<hostOffset, envUserId, envAzure, loadedAt, today, tomorrowStr, pc,
                   tool, req, posts,
                   queries, pagesLeft, pages, allEvents, upstream, resp>>
    /\ UNCHANGED <<rpcVars, sseVars>>

\* get-calendar-events on a server that runs for days
ClockNext ==
    \/ DayPasses
    \/ GetCalendarEvents
    \/ PageArrives
    \/ PageFails
    \/ Deliver

ClockSpec == Init /\ [][ClockNext]_vars

\* get-calendar-events alone, with an upstream that answers every request
FetchNext ==
    \/ GetCalendarEvents
    \/ PageArrives
    \/ PageFails
    \/ Deliver

FetchSpec ==
    /\ Init
    /\ [][FetchNext]_vars
    /\ WF_vars(PageArrives \/ PageFails)

----------------------------------------------------------------------------
(* McpHandler: the HTTP JSON-RPC endpoint (POST /) *)

\* the error codes the handler writes
ParseErrorCode == -32700
InvalidRequestCode == -32600
MethodNotFoundCode == -32601
InvalidParamsCode == -32602
InternalErrorCode == -32603

\* the text of the "details" of the Unauthorized error
UnauthorizedDetails ==
    "Include access_token in the request headers (Authorization: Bearer <token>) or in the parameters."

\* this.sendErrorResponse(res, code, message, id = null): null is <<>>
SendErrorResponse(code, message, id) ==
    [jsonrpc |-> "2.0", error |-> [code |-> code, message |-> message], id |-> id]

\* request = JSON.parse(body); if (request.id === undefined) request.id = null
\* inside one try block: <<>> when it throws (JSON.parse on text that is not
\* JSON, the read of .id on the JSON value null), else <<request>>
ParseRequest(body) ==
    IF body.kind = "object" THEN <<body.value @@ [id |-> <<>>]>> ELSE <<>>

\* request.jsonrpc !== '2.0' || !request.method
InvalidRequest(request) ==
    \/ ~Has(request, "jsonrpc")
    \/ request.jsonrpc # "2.0"
    \/ ~Has(request, "method")
    \/ request.method = ""

\* request.params: undefined is read as an object without keys, which is what
\* params?.access_token, { ...params } and the destructurings make of it
RequestParams(request) ==
    IF Has(request, "params") THEN request.params ELSE EmptyObj

\* the access token handleMethod finds: <<>> when none. A header text is
\* <<scheme and blank, credentials>>; httpReq is <<>> when the caller passes
\* none, else <<the headers of the HTTP request>>
AccessToken(params, httpReq) ==
    IF /\ Len(httpReq) > 0
       /\ Has(httpReq[1], "authorization")
       /\ httpReq[1].authorization[1] = "Bearer "
    THEN <<httpReq[1].authorization[2]>>
    ELSE IF Has(params, "access_token") /\ params.access_token # ""
    THEN <<params.access_token>>
    ELSE <<>>

AuthenticatedMethods ==
    {"list_events", "create_event", "update_event", "delete_event", "list_calendars"}

\* the cases of the switch that answer with a fixed result
ListMethods ==
    {"initialize", "tools/list", "resources/list", "prompts/list", "list_calendars",
     "mcp.events.subscribe", "mcp.events.unsubscribe"}

ListResult(method) ==
    CASE method = "initialize"     -> [protocolVersion |-> "2025-06-18"]
      [] method = "tools/list"     -> [tools |-> <<"list_events", "create_event",
                                                   "update_event", "delete_event",
                                                   "list_calendars">>]
      [] method = "resources/list" -> [resources |-> <<"events", "calendars",
                                                       "notifications">>]
      [] method = "prompts/list"   -> [prompts |-> <<>>]
      [] method = "list_calendars" -> [calendars |-> <<"primary">>]
      [] method = "mcp.events.subscribe" ->
            [success |-> TRUE, message |-> "Subscribed to events"]
      [] method = "mcp.events.unsubscribe" ->
            [success |-> TRUE, message |-> "Unsubscribed from events"]

\* handleUpdateEvent, handleDeleteEvent: if (!eventId) throw ...
EventIdMissing(params) == ~Has(params, "eventId") \/ params.eventId = ""

\* handleMethod, up to the call to the calendar service:
\*   [kind |-> "return"]  it returns value (undefined is the object without keys)
\*   [kind |-> "throw"]   it throws error
\*   [kind |-> "call"]    its handler awaits the calendar service
\* handler names the private handler it entered, "" when none
HandleMethod(method, params, requestId, httpReq) ==
    LET token == AccessToken(params, httpReq)
        Return(h, result) ==
            [kind |-> "return", handler |-> h,
             value |-> [jsonrpc |-> "2.0", id |-> requestId, result |-> result]]
        Throw(h, error) == [kind |-> "throw", handler |-> h, error |-> error]
    IN  IF method = "notifications/initialized"
        THEN [kind |-> "return", handler |-> "", value |-> EmptyObj]
        ELSE IF method \in AuthenticatedMethods /\ Len(token) = 0
        THEN Throw("", [code    |-> InvalidRequestCode,
                        message |-> "Unauthorized",
                        data    |-> [error   |-> "Missing access token",
                                     details |-> UnauthorizedDetails]])
        ELSE IF method \in {"list_events", "create_event"}
        THEN [kind |-> "call", handler |-> method, accessToken |-> token[1]]
        ELSE IF method \in {"update_event", "delete_event"}
        THEN IF EventIdMissing(params)
             THEN Throw(method, [code    |-> InvalidParamsCode,
                                 message |-> "Missing required parameter: eventId"])
             ELSE Return(method, [success |-> TRUE,
                                  message |-> <<"Event ", params.eventId>>])
        ELSE IF method \in ListMethods
        THEN Return(method, ListResult(method))
        ELSE Throw("", [code    |-> MethodNotFoundCode,
                        message |-> "Method not found",
                        data    |-> [method |-> method]])

\* the catch of handleRequest: error.code || -32603, error.message ||
\* 'Internal error', request.id; the error's data is not passed on
CaughtErrorResponse(error, id) ==
    SendErrorResponse(IF Has(error, "code") THEN error.code ELSE InternalErrorCode,
                      IF Has(error, "message") THEN error.message ELSE "Internal error",
                      id)

\* what handleListEvents and handleCreateEvent throw when the service call fails
ServiceFailure(handler, message) ==
    [code    |-> InternalErrorCode,
     message |-> IF handler = "list_events"
                 THEN "Failed to fetch calendar events"
                 ELSE "Failed to create calendar event",
     data    |-> [error |-> message]]

\* what handleListEvents and handleCreateEvent return when the call succeeds
ServiceResult(handler, requestId) ==
    [jsonrpc |-> "2.0", id |-> requestId,
     result  |-> IF handler = "list_events"
                 THEN [events |-> <<>>]
                 ELSE [success |-> TRUE, event |-> "created"]]

\* the HTTP requests of the model
RpcMethods ==
    {"initialize", "tools/list", "resources/list", "prompts/list", "list_events",
     "create_event", "update_event", "delete_event", "list_calendars",
     "mcp.events.subscribe", "mcp.events.unsubscribe", "notifications/initialized",
     "no_such_method"}

RpcParams ==
    {[access_token |-> "tok"],
     [access_token |-> "tok", eventId |-> "e1"],
     [access_token |-> "tok", eventId |-> ""],
     [access_token |-> "",    eventId |-> "e1"],
     [eventId |-> "e1"]}

TextBody == [kind |-> "text"]

NullBody == [kind |-> "null"]

ObjectBody(o) == [kind |-> "object", value |-> o]

\* bodies with or without each member of the envelope (an id is null or 7)
EnvelopeBodies ==
    { ObjectBody(Opt(v # "absent", "jsonrpc", v) @@ Opt(m # "absent", "method", m)
                 @@ Opt(h, "id", i)) :
        v \in {"absent", "2.0", "1.0"}, m \in {"absent", "", "tools/list"},
        h \in BOOLEAN, i \in {<<>>, <<7>>} }

MethodBodies ==
    { ObjectBody([jsonrpc |-> "2.0", method |-> m, id |-> <<7>>]) : m \in RpcMethods }
    \cup
    { ObjectBody([jsonrpc |-> "2.0", method |-> m, id |-> <<7>>, params |-> q]) :
        m \in RpcMethods, q \in RpcParams }

IdBodies ==
    { ObjectBody([jsonrpc |-> "2.0", method |-> m, params |-> [access_token |-> "tok"]]
                 @@ Opt(h, "id", i)) :
        m \in {"list_events", "update_event"}, h \in BOOLEAN, i \in {<<>>, <<8>>} }

HttpRequests ==
    { [headers |-> EmptyObj, body |-> b] :
        b \in {TextBody, NullBody} \cup EnvelopeBodies \cup MethodBodies \cup IdBodies }
    \cup
    { [headers |-> [authorization |-> <<"Bearer ", "tok">>],
       body    |-> ObjectBody([jsonrpc |-> "2.0", method |-> m, id |-> <<7>>])] :
        m \in {"list_events", "tools/list"} }

\* handleListEvents and handleCreateEvent call fetchCalendarEvents(accessToken,
\* start, end) and createCalendarEvent(accessToken, eventData); the first
\* parameter of both functions is userId, which they put in the path
\* /users/${userId}/... of their upstream request
ServiceCall(handler, accessToken) ==
    [service |-> handler, accessToken |-> accessToken, userId |-> accessToken,
     outcome |-> "pending"]

\* a slot whose response has been written
Sent(http, handler, calls, response) ==
    [pc |-> "sent", http |-> http, handler |-> handler, calls |-> calls,
     response |-> response]

\* handleRequest, from the arrival of the body to the response or to the call
\* of the calendar service; handleMethod is called without the HTTP request
RpcReceive(s) ==
    /\ rpc[s].pc = "free"
    /\ \E http \in HttpRequests :
         LET parsed == ParseRequest(http.body)
         IN  IF Len(parsed) = 0
             THEN rpc' = [rpc EXCEPT ![s] =
                     Sent(http, "", <<>>,
                          SendErrorResponse(ParseErrorCode, "Parse error", <<>>))]
             ELSE IF InvalidRequest(parsed[1])
             THEN rpc' = [rpc EXCEPT ![s] =
                     Sent(http, "", <<>>,
                          SendErrorResponse(InvalidRequestCode, "Invalid Request",
                                            <<>>))]
             ELSE LET request == parsed[1]
                      outcome == HandleMethod(request.method, RequestParams(request),
                                              request.id, <<>>)
                  IN  CASE outcome.kind = "return" ->
                             rpc' = [rpc EXCEPT ![s] =
                                Sent(http, outcome.handler, <<>>, outcome.value)]
                        [] outcome.kind = "throw" ->
                             rpc' = [rpc EXCEPT ![s] =
                                Sent(http, outcome.handler, <<>>,
                                     CaughtErrorResponse(outcome.error, request.id))]
                        [] outcome.kind = "call" ->
                             rpc' = [rpc EXCEPT ![s] =
                                [pc |-> "calling", http |-> http, id |-> request.id,
                                 handler |-> outcome.handler,
                                 calls |-> <<ServiceCall(outcome.handler,
                                                         outcome.accessToken)>>]]
    /\ UNCHANGED <<toolVars, sseVars>>

\* the calendar service answers the call of the slot's handler
RpcCallSucceeds(s) ==
    /\ rpc[s].pc = "calling"
    /\ rpc' = [rpc EXCEPT ![s] =
                  Sent(rpc[s].http, rpc[s].handler,
                       [rpc[s].calls EXCEPT ![1].outcome = "ok"],
                       ServiceResult(rpc[s].handler, rpc[s].id))]
    /\ UNCHANGED <<toolVars, sseVars>>

\* the calendar service throws: the handler rethrows, handleRequest catches
RpcCallFails(s) ==
    /\ rpc[s].pc = "calling"
    /\ rpc' = [rpc EXCEPT ![s] =
                  Sent(rpc[s].http, rpc[s].handler,
                       [rpc[s].calls EXCEPT ![1].outcome = "failed"],
                       CaughtErrorResponse(
                           ServiceFailure(rpc[s].handler, "Service Unavailable"),
                           rpc[s].id))]
    /\ UNCHANGED <<toolVars, sseVars>>

\* the response has gone out and the HTTP exchange is over
RpcClose(s) ==
    /\ rpc[s].pc = "sent"
    /\ rpc' = [rpc EXCEPT ![s] = FreeSlot]
    /\ UNCHANGED <<toolVars, sseVars>>

RpcNext ==
    \/ \E s \in 1..MaxInFlight : RpcReceive(s)
    \/ \E s \in 1..MaxInFlight : RpcCallSucceeds(s)
    \/ \E s \in 1..MaxInFlight : RpcCallFails(s)
    \/ \E s \in 1..MaxInFlight : RpcClose(s)

RpcSpec == Init /\ [][RpcNext]_vars

----------------------------------------------------------------------------
(* SseServer: the client registry (GET /events) *)

\* const clientId = Date.now().toString()
ClientId(now) == now

\* handleSSEConnection for connection c: this.clients.set(clientId, res), and
\* the close listener keeps clientId
SseConnect(c) ==
    /\ conns[c].state = "new"
    /\ conns' = [conns EXCEPT ![c] = [state |-> "open", clientId |-> ClientId(clock)]]
    /\ clients' = [k \in {ClientId(clock)} |-> c] @@ clients
    /\ UNCHANGED <<clock, toolVars, rpcVars>>

\* req.on('close'): this.clients.delete(clientId)
SseClose(c) ==
    /\ conns[c].state = "open"
    /\ conns' = [conns EXCEPT ![c].state = "closed"]
    /\ clients' = Without(clients, {conns[c].clientId})
    /\ UNCHANGED <<clock, toolVars, rpcVars>>

\* a millisecond passes
Tick ==
    /\ clock < MaxClock
    /\ clock' = clock + 1
    /\ UNCHANGED <<conns, clients, toolVars, rpcVars>>

SseNext ==
    \/ \E c \in 1..MaxConns : SseConnect(c)
    \/ \E c \in 1..MaxConns : SseClose(c)
    \/ Tick

SseSpec == Init /\ [][SseNext]_vars

----------------------------------------------------------------------------
(* Properties of create-calendar-event *)

\* a create-calendar-event request has reached the upstream POST
Posted == tool = "create-calendar-event" /\ Len(posts) > 0

Payload == posts[Len(posts)].payload

\* the create succeeded: the upstream accepted the POST and the handler
\* returned the created event
Created ==
    /\ Posted /\ pc = "done"
    /\ Has(resp[1], "_meta") /\ Has(resp[1]._meta, "success")

PostedRecurrence == Posted /\ Has(Payload, "recurrence")

Pattern == Payload.recurrence.pattern

Range == Payload.recurrence.range

\* the request asks for a recurring event
AsksRecurring == Has(req, "is_recurring") /\ req.is_recurring

AsksType(t) == AsksRecurring /\ Has(req, "recurrence_type") /\ req.recurrence_type = t

\* the civil date of the event start: the date part of start_datetime
StartCivil == SubSeq(req.start_datetime, 1, 3)

\* C1: a posted payload of a request with is_recurring false (sent, or left
\* to its default) has no recurrence field, whatever recurrence arguments
\* the request carries.
C1_NoRecurrenceUnlessAsked ==
    (Posted /\ ~AsksRecurring) => ~Has(Payload, "recurrence")

C1_Witness ==
    /\ Created
    /\ Has(req, "is_recurring") /\ ~req.is_recurring
    /\ Has(req, "recurrence_type") /\ req.recurrence_type = "weekly"
    /\ Has(req, "recurrence_range_type") /\ req.recurrence_range_type = "numbered"
    /\ Has(req, "recurrence_end_date") /\ Has(req, "recurrence_occurrences")
    /\ Has(req, "days_of_week") /\ Len(req.days_of_week) > 0
    /\ ~Has(Payload, "recurrence")

\* C2: for a weekly request with a non-empty days_of_week, the posted
\* pattern.daysOfWeek has the length and order of the input, each name with
\* its first character upper-cased and the others lower-cased.
C2_WeeklyDaysCapitalised ==
    (Posted /\ AsksType("weekly") /\ Has(req, "days_of_week")
        /\ Len(req.days_of_week) > 0)
    => /\ PostedRecurrence
       /\ Has(Pattern, "daysOfWeek")
       /\ Len(Pattern.daysOfWeek) = Len(req.days_of_week)
       /\ \A i \in 1..Len(req.days_of_week) :
            LET in  == req.days_of_week[i]
                out == Pattern.daysOfWeek[i]
            IN  /\ Len(out) = Len(in)
                /\ out[1] = ToUpperCase(in[1]) /\ out[1] # in[1]
                /\ \A j \in 2..Len(in) : out[j] = ToLowerCase(in[j])

C2_Witness ==
    /\ Created /\ AsksType("weekly")
    /\ Has(req, "days_of_week") /\ Len(req.days_of_week) = 3
    /\ Pattern.daysOfWeek[2] = <<"W", "e", "d", "n", "e", "s", "d", "a", "y">>

\* the names the upstream knows the weekdays by, sunday first
GraphDayNames ==
    << <<"S","u","n","d","a","y">>, <<"M","o","n","d","a","y">>,
       <<"T","u","e","s","d","a","y">>, <<"W","e","d","n","e","s","d","a","y">>,
       <<"T","h","u","r","s","d","a","y">>, <<"F","r","i","d","a","y">>,
       <<"S","a","t","u","r","d","a","y">> >>

\* the weekday (0 = sunday) of a civil date
CivilWeekday(date) == (DaysFromCivil(date[1], date[2], date[3]) + 4) % 7

\* C3: for a weekly request with days_of_week omitted or empty, the posted
\* pattern.daysOfWeek is the one weekday of the civil start date, at every
\* start hour and host offset.
C3_WeeklyDefaultsToStartWeekday ==
    (Posted /\ AsksType("weekly")
        /\ (~Has(req, "days_of_week") \/ Len(req.days_of_week) = 0))
    => /\ PostedRecurrence
       /\ Has(Pattern, "daysOfWeek")
       /\ Pattern.daysOfWeek = <<GraphDayNames[CivilWeekday(StartCivil) + 1]>>

\* the UTC date of the start differs from its civil date
StartCrossesUtcDate ==
    ISODatePart(NewDateLocal(req.start_datetime, hostOffset)) # StartCivil

C3_Witness ==
    /\ Created /\ AsksType("weekly")
    /\ Has(req, "days_of_week") /\ Len(req.days_of_week) = 0
    /\ hostOffset > 0 /\ StartCrossesUtcDate
    /\ Pattern.daysOfWeek = << <<"M","o","n","d","a","y">> >>

\* C4: for absoluteMonthly and for monthly the posted pattern.type is
\* absoluteMonthly and pattern.dayOfMonth is the day of the civil start date,
\* whatever month_day the request carries and whatever the host offset.
C4_MonthlyUsesStartDay ==
    (Posted /\ (AsksType("absoluteMonthly") \/ AsksType("monthly")))
    => /\ PostedRecurrence
       /\ Has(Pattern, "type") /\ Pattern.type = "absoluteMonthly"
       /\ Has(Pattern, "dayOfMonth") /\ Pattern.dayOfMonth = StartCivil[3]

C4_Witness ==
    /\ Created /\ AsksType("monthly")
    /\ Has(req, "month_day") /\ req.month_day # StartCivil[3]
    /\ hostOffset > 0 /\ StartCrossesUtcDate
    /\ Pattern.type = "absoluteMonthly" /\ Pattern.dayOfMonth = StartCivil[3]

\* the last day of the month of a civil date
CivilLastDay(date) ==
    CHOOSE l \in 28..31 :
        /\ CivilFromDays(DaysFromCivil(date[1], date[2], 1) + l - 1)[2] = date[2]
        /\ CivilFromDays(DaysFromCivil(date[1], date[2], 1) + l)[2] # date[2]

\* C5: for relativeMonthly with the start on day D of a month of L days, the
\* posted pattern.index is last when D + 7 > L, and otherwise the ordinal of
\* the week ceil(D / 7).
C5_RelativeMonthlyIndex ==
    (Posted /\ AsksType("relativeMonthly"))
    => /\ PostedRecurrence
       /\ Has(Pattern, "index")
       /\ LET D == StartCivil[3]
              L == CivilLastDay(StartCivil)
          IN  IF D + 7 > L THEN Pattern.index = "last"
              ELSE \E k \in 1..4 :
                     /\ 7 * (k - 1) < D /\ D <= 7 * k
                     /\ Pattern.index = <<"first", "second", "third", "fourth">>[k]

C5_Witness ==
    /\ Created /\ AsksType("relativeMonthly")
    /\ StartCivil = <<2025, 2, 22>> /\ hostOffset < 0 /\ StartCrossesUtcDate
    /\ Pattern.index = "last"

\* C6: in every posted recurrence a range of type endDate has endDate and no
\* numberOfOccurrences, a range of type numbered has numberOfOccurrences and
\* no endDate, and a range of type noEnd has neither.
C6_RangeFieldsMatchType ==
    (PostedRecurrence /\ Has(Range, "type"))
    => /\ Range.type = "endDate"
            => Has(Range, "endDate") /\ ~Has(Range, "numberOfOccurrences")
       /\ Range.type = "numbered"
            => Has(Range, "numberOfOccurrences") /\ ~Has(Range, "endDate")
       /\ Range.type = "noEnd"
            => ~Has(Range, "endDate") /\ ~Has(Range, "numberOfOccurrences")

\* C7: in every posted recurrence range.recurrenceTimeZone is the timezone
\* argument of the request.
C7_RecurrenceZoneIsRequestZone ==
    PostedRecurrence => Range.recurrenceTimeZone = req.timezone

\* C8: in every posted recurrence range.startDate is the date part of
\* start_datetime, at every start hour and host offset.
C8_RangeStartIsCivilDate ==
    PostedRecurrence => Range.startDate = StartCivil

\* the attendees argument the handler sees
AttendeesInput ==
    IF Has(req, "attendees") THEN req.attendees ELSE CreateSchemaDefaults.attendees

PostedAttendees == IF Has(Payload, "attendees") THEN Payload.attendees ELSE <<>>

\* t is s without its leading and trailing blanks
IsTrimOf(t, s) ==
    /\ (t # <<>> => t[1] # " " /\ t[Len(t)] # " ")
    /\ \E i \in 0..Len(s) :
         /\ i + Len(t) <= Len(s)
         /\ SubSeq(s, i + 1, i + Len(t)) = t
         /\ \A j \in (1..i) \cup ((i + Len(t) + 1)..Len(s)) : s[j] = " "

\* n is the part of a before its first '@'
IsLocalPartOf(n, a) ==
    /\ ~Includes(n, "@")
    /\ Len(n) < Len(a)
    /\ SubSeq(a, 1, Len(n)) = n
    /\ a[Len(n) + 1] = "@"

\* C10: the posted attendees are the input entries that contain '@', in
\* input order, each trimmed, named by its local part and typed required;
\* entries without '@' are not posted.
C10_AttendeesFiltered ==
    Posted =>
      LET kept == {i \in 1..Len(AttendeesInput) : Includes(AttendeesInput[i], "@")}
          nth(k) == CHOOSE i \in kept : Cardinality({j \in kept : j <= i}) = k
      IN  /\ Len(PostedAttendees) = Cardinality(kept)
          /\ \A k \in 1..Len(PostedAttendees) :
               LET a == PostedAttendees[k]
               IN  /\ Includes(a.emailAddress.address, "@")
                   /\ IsTrimOf(a.emailAddress.address, AttendeesInput[nth(k)])
                   /\ IsLocalPartOf(a.emailAddress.name, a.emailAddress.address)
                   /\ a.type = "required"

C10_Witness ==
    /\ Created
    /\ Has(req, "attendees")
    /\ req.attendees = << <<"a", "x">>, <<" ", "a", "@", "x", " ">> >>
    /\ Has(Payload, "attendees") /\ Len(Payload.attendees) = 1
    /\ Payload.attendees[1].emailAddress
         = [address |-> <<"a", "@", "x">>, name |-> <<"a">>]

----------------------------------------------------------------------------
(* Properties of get-calendar-events *)

\* a get-calendar-events request has issued its calendarView request
Queried == tool = "get-calendar-events" /\ Len(queries) > 0

RequestZone == IF Has(req, "timezone") THEN req.timezone ELSE "Asia/Manila"

\* the instant of 00:00 on a civil date in a zone
MidnightIn(date, zone) ==
    DaysFromCivil(date[1], date[2], date[3]) * 24 - ZoneOffset(zone)

\* C9: with start_date = end_date = D and timezone Z the calendarView is
\* queried from the instant of D 00:00 in Z to the instant of D + 1 day
\* 00:00 in Z, in every zone and at every host offset.
C9_QueryWindowIsTheDayInZone ==
    (Queried /\ Has(req, "start_date") /\ Has(req, "end_date")
        /\ req.start_date = req.end_date)
    => /\ queries[1].startDateTime = ToISOString(MidnightIn(req.start_date, RequestZone))
       /\ queries[1].endDateTime
            = ToISOString(MidnightIn(req.start_date, RequestZone) + 24)

----------------------------------------------------------------------------
(* Properties of the tool responses *)

\* the response the handler returned
Response == resp[1]

Content == Response.content

\* the response marks a failure in its metadata block
MetaError ==
    /\ Has(Response, "_meta")
    /\ Has(Response._meta, "error")
    /\ Response._meta.error = TRUE

\* C11: when the upstream POST of create-calendar-event fails, the handler
\* returns (it does not throw) a response whose content is exactly one text
\* item carrying the error message of the upstream, and whose _meta.error is
\* true.
C11_PostFailureIsTextAndMetaError ==
    (tool = "create-calendar-event" /\ upstream.state = "failed")
    => /\ pc = "done" /\ Len(resp) = 1
       /\ Len(Content) = 1
       /\ Content[1].type = "text"
       /\ Content[1].text[2][2] = upstream.message
       /\ MetaError

C11_Witness ==
    /\ Posted /\ pc = "done" /\ upstream.state = "failed"
    /\ upstream.message = "Service Unavailable"
    /\ AsksRecurring

\* C12: when a calendarView request of get-calendar-events fails, on the
\* first page or on a continuation page, the handler returns a response with
\* exactly one text item that begins with the error marker, and with
\* _meta.error true.
C12_FetchFailureIsTextAndMetaError ==
    (tool = "get-calendar-events" /\ upstream.state = "failed")
    => /\ pc = "done" /\ Len(resp) = 1
       /\ Len(Content) = 1
       /\ Content[1].type = "text"
       /\ Content[1].text[1] = "Error: "
       /\ MetaError

\* item i of the content is a resource whose uri is a data:application/json URI
IsDataResource(item) ==
    /\ item.type = "resource"
    /\ Has(item.resource, "uri")
    /\ item.resource.uri[1] = "data:application/json,"

\* C13: the response of every successful get-calendar-events and of every
\* successful create-calendar-event holds at least one text item and at
\* least one resource item with a data:application/json URI.
C13_SuccessHasTextAndResource ==
    (pc = "done" /\ upstream.state = "ok")
    => /\ \E i \in 1..Len(Content) : Content[i].type = "text"
       /\ \E i \in 1..Len(Content) : IsDataResource(Content[i])

\* the user_id the handler of the running tool receives
AskedUserId ==
    IF tool = "create-calendar-event"
    THEN CreateSchemaParse(req).user_id
    ELSE FetchSchemaParse(req).user_id

\* the user ids in the paths of the upstream calls made for the request
UpstreamUsers ==
    {posts[i].user : i \in 1..Len(posts)}
    \cup {queries[i].user : i \in {j \in 1..Len(queries) : Has(queries[j], "user")}}

\* C14: in both calendar tools a user_id of 'me' is replaced by the configured
\* USER_ID in every upstream call; with USER_ID unset the handler returns one
\* text error item and makes no upstream call; any other user_id goes into
\* the upstream path unchanged.
C14_UserIdResolved ==
    tool # ""
    => IF AskedUserId = "me"
       THEN IF envUserId = <<>>
            THEN /\ pc = "done" /\ upstream.state = "none"
                 /\ posts = <<>> /\ queries = <<>>
                 /\ Len(Content) = 1 /\ Content[1].type = "text"
                 /\ Content[1].text[1] = "Error: "
            ELSE UpstreamUsers \subseteq {envUserId[1]}
       ELSE UpstreamUsers \subseteq {AskedUserId}

C14_Witness ==
    /\ Created /\ Has(req, "user_id") /\ req.user_id = "me"
    /\ envUserId = <<"u0">> /\ posts[1].user = "u0"

\* the request asks for a range it does not complete: endDate without
\* recurrence_end_date, or numbered without recurrence_occurrences
IncompleteRange ==
    /\ tool = "create-calendar-event" /\ AsksRecurring
    /\ Has(req, "recurrence_range_type")
    /\ \/ req.recurrence_range_type = "endDate" /\ ~Has(req, "recurrence_end_date")
       \/ /\ req.recurrence_range_type = "numbered"
          /\ ~Has(req, "recurrence_occurrences")

\* C15: a create-calendar-event request with is_recurring true and a range
\* type endDate without recurrence_end_date, or numbered without
\* recurrence_occurrences, is answered with an error text item and is never
\* posted upstream.
C15_IncompleteRangeRejected ==
    IncompleteRange
    => /\ posts = <<>>
       /\ pc = "done" /\ Len(Content) = 1 /\ Content[1].type = "text"
       /\ ~Has(Response, "_meta") \/ ~Has(Response._meta, "success")

----------------------------------------------------------------------------
(* Properties of fetchCalendarEvents *)

RECURSIVE Flatten(_)
\* the values of the pages, concatenated in page order
Flatten(ps) ==
    IF Len(ps) = 0 THEN <<>> ELSE ps[1].value \o Flatten(Tail(ps))

\* the events the successful response of get-calendar-events carries
ReturnedEvents == Content[3].resource.uri[2]

\* request k of the running query asked for the page request k - 1 linked to
FollowsLinks ==
    \A k \in 2..Len(queries) :
        /\ k - 1 <= Len(pages) /\ Has(pages[k - 1], "nextLink")
        /\ queries[k] = [nextLink |-> pages[k - 1].nextLink]

\* every request names another page
EachPageOnce ==
    \A j, k \in 1..Len(queries) : j # k => queries[j] # queries[k]

\* C16 (safety): fetchCalendarEvents issues the initial request and then one
\* request for each @odata.nextLink, each page once; it returns when a page
\* without nextLink arrives, with the concatenation of the values of all the
\* pages in page order; when a page request fails nothing of the pages read
\* so far is returned.
C16_DrainsPagesInOrder ==
    tool = "get-calendar-events"
    => /\ FollowsLinks /\ EachPageOnce
       /\ allEvents = Flatten(pages)
       /\ upstream.state = "pending"
            => /\ Len(queries) = Len(pages) + 1
               /\ \A k \in 1..Len(pages) : Has(pages[k], "nextLink")
       /\ upstream.state = "ok"
            => /\ Len(queries) = Len(pages)
               /\ ~Has(pages[Len(pages)], "nextLink")
               /\ \A k \in 1..(Len(pages) - 1) : Has(pages[k], "nextLink")
               /\ ReturnedEvents = Flatten(pages)
       /\ upstream.state = "failed"
            => /\ Len(Content) = 1 /\ Content[1].type = "text"
               /\ ~Has(Response, "_meta")

\* C16: the safety part above at every state, and every running fetch comes
\* to its end: for every finite chain of pages the handler returns.
C16_FetchDrainsAndTerminates ==
    /\ []C16_DrainsPagesInOrder
    /\ (pc = "fetching") ~> (pc = "done")

C16_Witness ==
    /\ tool = "get-calendar-events" /\ pc = "done" /\ upstream.state = "ok"
    /\ Len(pages) = 3
    /\ Len(pages[1].value) > 0 /\ Len(pages[2].value) = 0 /\ Len(pages[3].value) > 0
    /\ pages[1].value # pages[3].value

----------------------------------------------------------------------------
(* Properties of the HTTP JSON-RPC endpoint *)

\* the answered requests
Answered == {s \in 1..MaxInFlight : rpc[s].pc = "sent"}

\* the JSON value of the body of the request of slot s
BodyOf(s) == rpc[s].http.body

\* the body of slot s is a JSON text
IsJson(s) == BodyOf(s).kind \in {"null", "object"}

\* the body of slot s is JSON without jsonrpc = '2.0' or without a method
LacksEnvelope(s) ==
    \/ BodyOf(s).kind = "null"
    \/ /\ BodyOf(s).kind = "object"
       /\ \/ ~Has(BodyOf(s).value, "jsonrpc") \/ BodyOf(s).value.jsonrpc # "2.0"
          \/ ~Has(BodyOf(s).value, "method") \/ BodyOf(s).value.method = ""

\* the body of slot s is a JSON-RPC 2.0 request object
WellFormed(s) == IsJson(s) /\ ~LacksEnvelope(s)

MethodOf(s) == BodyOf(s).value.method

\* the request of slot s carries an access token, as a parameter or as a
\* bearer Authorization header
CarriesToken(s) ==
    \/ /\ Has(BodyOf(s).value, "params")
       /\ Has(BodyOf(s).value.params, "access_token")
       /\ BodyOf(s).value.params.access_token # ""
    \/ /\ Has(rpc[s].http.headers, "authorization")
       /\ rpc[s].http.headers.authorization[1] = "Bearer "

\* the request of slot s carries an eventId
CarriesEventId(s) ==
    /\ Has(BodyOf(s).value, "params")
    /\ Has(BodyOf(s).value.params, "eventId")
    /\ BodyOf(s).value.params.eventId # ""

\* slot s was answered with an error response of this code
AnsweredError(s, code) ==
    /\ Has(rpc[s].response, "error")
    /\ rpc[s].response.error.code = code

\* the methods the handler knows
KnownMethods ==
    ListMethods \cup AuthenticatedMethods \cup {"notifications/initialized"}

\* C17: the handler answers a body that is not JSON with -32700, a JSON body
\* without jsonrpc = '2.0' or without a method with -32600, an unknown method
\* with -32601, an update_event or delete_event (with its token) without
\* eventId with -32602, and a failed call of the calendar service with -32603.
C17_ErrorCodes ==
    \A s \in Answered :
        /\ ~IsJson(s) => AnsweredError(s, ParseErrorCode)
        /\ (IsJson(s) /\ LacksEnvelope(s)) => AnsweredError(s, InvalidRequestCode)
        /\ (WellFormed(s) /\ MethodOf(s) \notin KnownMethods)
             => AnsweredError(s, MethodNotFoundCode)
        /\ (/\ WellFormed(s) /\ MethodOf(s) \in {"update_event", "delete_event"}
            /\ CarriesToken(s) /\ ~CarriesEventId(s))
             => AnsweredError(s, InvalidParamsCode)
        /\ (Len(rpc[s].calls) > 0 /\ rpc[s].calls[1].outcome = "failed")
             => AnsweredError(s, InternalErrorCode)

\* C18: a request for list_events, create_event, update_event, delete_event
\* or list_calendars without an access token is answered with the error
\* -32600 'Unauthorized', the response carries the remediation text, and
\* neither a handler of the method nor the calendar service was called.
C18_UnauthorizedWithRemediation ==
    \A s \in Answered :
        (WellFormed(s) /\ MethodOf(s) \in AuthenticatedMethods /\ ~CarriesToken(s))
        => /\ AnsweredError(s, InvalidRequestCode)
           /\ rpc[s].response.error.message = "Unauthorized"
           /\ rpc[s].handler = "" /\ rpc[s].calls = <<>>
           /\ Has(rpc[s].response.error, "data")
           /\ rpc[s].response.error.data.details = UnauthorizedDetails

\* the id the request of slot s supplied: null (<<>>) when it supplied none
SuppliedId(s) ==
    IF BodyOf(s).kind = "object" /\ Has(BodyOf(s).value, "id")
    THEN BodyOf(s).value.id
    ELSE <<>>

\* C19: every JSON-RPC response, result or error, written for a request whose
\* body is JSON carries the id of that request, whatever else is in flight;
\* the id is null only when the request supplied none.
C19_ResponseCarriesRequestId ==
    \A s \in Answered :
        (IsJson(s) /\ Has(rpc[s].response, "jsonrpc"))
        => rpc[s].response.id = SuppliedId(s)

----------------------------------------------------------------------------
(* Properties of the SSE client registry *)

\* the connections that are open
OpenConnections == {c \in 1..MaxConns : conns[c].state = "open"}

\* the connections the registry holds an entry for
Registered == {clients[k] : k \in DOMAIN clients}

\* C20: after any interleaving of connects and closes the registry holds an
\* entry for exactly each connection that is still open.
C20_RegistryIsOpenConnections ==
    /\ Registered = OpenConnections
    /\ Cardinality(DOMAIN clients) = Cardinality(OpenConnections)

----------------------------------------------------------------------------
(* Properties of the tools under an incomplete Azure configuration *)

\* the AZURE_* keys that process.env lacks
MissingKeys == AzureKeys \ envAzure

\* a tool was invoked for a user id that resolves, under an environment that
\* lacks at least one of the AZURE_* keys
InvokedWithoutCredentials ==
    /\ tool # ""
    /\ MissingKeys # {}
    /\ ~UserIdUnset(AskedUserId)

\* the keys the message of the text error names
KeysNamed ==
    IF Len(Content) = 1 /\ Content[1].type = "text" /\ Len(Content[1].text) = 2
       /\ Content[1].text[2] = MissingCredentialsMessage
    THEN {Content[1].text[2][2][i] : i \in 1..Len(Content[1].text[2][2])}
    ELSE {}

\* such an invocation ends with one text error and without an upstream call
C21_FailsBeforeUpstream ==
    InvokedWithoutCredentials
    => /\ pc = "done"
       /\ posts = <<>> /\ queries = <<>>
       /\ Len(Content) = 1 /\ Content[1].type = "text"

\* C21: when any of AZURE_TENANT_ID, AZURE_CLIENT_ID, AZURE_CLIENT_SECRET is
\* absent, a tool invocation fails before any upstream call and reports a text
\* error whose message names exactly the missing keys.
C21_NamesExactlyMissingKeys ==
    InvokedWithoutCredentials
    => /\ C21_FailsBeforeUpstream
       /\ KeysNamed = MissingKeys

----------------------------------------------------------------------------
(* Properties of the posted times, range and importance *)

\* the hours between 1970-01-01T00:00 and a date-time text, both read in
\* one zone
CivilHours(dt) == DaysFromCivil(dt[1], dt[2], dt[3]) * 24 + dt[4]

\* the request asks for an event that ends before it starts
AsksEndBeforeStart ==
    /\ tool = "create-calendar-event"
    /\ Has(req, "start_datetime") /\ req.start_datetime # <<>>
    /\ Has(req, "end_datetime") /\ req.end_datetime # <<>>
    /\ CivilHours(req.end_datetime) < CivilHours(req.start_datetime)

\* C22: no posted event starts later than it ends; a request whose
\* end_datetime precedes its start_datetime gets an error text and no
\* upstream call.
C22_NeverPostsEndBeforeStart ==
    /\ Posted
       => CivilHours(Payload.start.dateTime) <= CivilHours(Payload.end.dateTime)
    /\ AsksEndBeforeStart
       => /\ posts = <<>>
          /\ pc = "done" => Has(Response, "_meta") /\ Has(Response._meta, "error")

\* the days between 1970-01-01 and a date
DateDays(date) == DaysFromCivil(date[1], date[2], date[3])

\* the request asks for a recurrence that ends on a date before the date of
\* its start
AsksEndDateBeforeStart ==
    /\ tool = "create-calendar-event" /\ AsksRecurring
    /\ Has(req, "recurrence_range_type") /\ req.recurrence_range_type = "endDate"
    /\ Has(req, "recurrence_end_date") /\ req.recurrence_end_date # <<>>
    /\ DateDays(req.recurrence_end_date) < DateDays(StartCivil)

\* C23: a posted range of type endDate that carries an endDate carries one on
\* or after its startDate; a request whose recurrence_end_date precedes the
\* date of its start is never posted.
C23_EndDateNotBeforeStartDate ==
    /\ (PostedRecurrence /\ Has(Range, "type") /\ Range.type = "endDate"
           /\ Has(Range, "endDate"))
       => DateDays(Range.endDate) >= DateDays(Range.startDate)
    /\ AsksEndDateBeforeStart => posts = <<>>

\* the values of pattern.type the upstream accepts
GraphPatternTypes ==
    {"daily", "weekly", "absoluteMonthly", "relativeMonthly", "absoluteYearly",
     "relativeYearly"}

\* C24: the recurrence posted for a request with is_recurring true has
\* pattern.type and range.type both set to a value of their enumerations,
\* also when the caller omits recurrence_type or recurrence_range_type.
C24_TypesAlwaysSet ==
    (PostedRecurrence /\ AsksRecurring)
    => /\ Has(Pattern, "type")
       /\ Pattern.type \in RecurrenceTypes \cup GraphPatternTypes
       /\ Has(Range, "type")
       /\ Range.type \in RangeTypes

\* C25: the posted importance is one of low, normal and high, and it is
\* normal when the request carries no importance.
C25_ImportanceIsLowercaseEnum ==
    Posted
    => /\ Payload.importance \in {"low", "normal", "high"}
       /\ ~Has(req, "importance") => Payload.importance = "normal"

\* C29: pattern.type of every posted recurrence that carries one is a value
\* the upstream accepts, for every recurrence_type of the schema, the aliases
\* monthly and yearly included.
C29_PatternTypeIsGraphType ==
    (PostedRecurrence /\ Has(Pattern, "type"))
    => Pattern.type \in GraphPatternTypes

\* the request leaves the weekday of a weekly pattern to the start date
DerivesWeekday ==
    \/ AsksType("relativeMonthly")
    \/ /\ AsksType("weekly")
       /\ ~Has(req, "days_of_week") \/ Len(req.days_of_week) = 0

\* C30: the pattern and the range of a posted recurrence are derived from one
\* civil date: dayOfMonth is the day of range.startDate, and a derived
\* weekday is the weekday of range.startDate, at every start time and host
\* offset.
C30_PatternAndRangeAgree ==
    PostedRecurrence
    => /\ Has(Pattern, "dayOfMonth") => Pattern.dayOfMonth = Range.startDate[3]
       /\ (DerivesWeekday /\ Has(Pattern, "daysOfWeek"))
          => Pattern.daysOfWeek = <<GraphDayNames[CivilWeekday(Range.startDate) + 1]>>

----------------------------------------------------------------------------
(* Properties of the default date range of get-calendar-events *)

\* Date.now() of the running server
CurrentInstant == loadedAt + 24 * uptimeDays

\* the date of the current instant in UTC, in the zone of the host and in
\* the zone the request is evaluated in
CurrentDates ==
    {CivilFromDays((CurrentInstant + o) \div 24) :
        o \in {0, hostOffset, ZoneOffset(FetchSchemaParse(req).timezone)}}

\* the day after a date
NextDate(date) == CivilFromDays(DateDays(date) + 1)

\* the served request left both dates out and its calendarView request is out
QueriedDefaults ==
    /\ tool = "get-calendar-events" /\ Len(queries) > 0
    /\ ~Has(req, "start_date") /\ ~Has(req, "end_date")

\* the window the handler asks the upstream for is the one of some date d
\* and of the day after it
WindowOf(d) ==
    LET expected == CalendarViewQuery(queries[1].user,
                                      [start_date |-> d, end_date |-> NextDate(d),
                                       timezone |-> FetchSchemaParse(req).timezone],
                                      hostOffset)
    IN  /\ queries[1].startDateTime = expected.startDateTime
        /\ queries[1].endDateTime = expected.endDateTime

\* C26: a get-calendar-events request that omits start_date and end_date is
\* served for the current date at the time of the invocation and the day
\* after it, however long the server has run since the tools were registered.
C26_DefaultsFollowTheClock ==
    QueriedDefaults => \E d \in CurrentDates : WindowOf(d)

\* the same on a server that has run for less than a day
C26_DefaultsOfTheFirstDay ==
    (QueriedDefaults /\ uptimeDays = 0) => \E d \in CurrentDates : WindowOf(d)

----------------------------------------------------------------------------
(* Properties of the authentication of the HTTP JSON-RPC endpoint *)

\* the token of the bearer Authorization header of slot s, if any
HeaderTokens(s) ==
    IF /\ Has(rpc[s].http.headers, "authorization")
       /\ rpc[s].http.headers.authorization[1] = "Bearer "
    THEN {rpc[s].http.headers.authorization[2]}
    ELSE {}

\* the access_token parameter of slot s, if any
ParamTokens(s) ==
    IF /\ BodyOf(s).kind = "object" /\ Has(BodyOf(s).value, "params")
       /\ Has(BodyOf(s).value.params, "access_token")
       /\ BodyOf(s).value.params.access_token # ""
    THEN {BodyOf(s).value.params.access_token}
    ELSE {}

\* slot s was answered with the error 'Unauthorized'
AnsweredUnauthorized(s) ==
    /\ Has(rpc[s].response, "error")
    /\ rpc[s].response.error.message = "Unauthorized"

\* C27: a request to an authenticated method that carries its token in an
\* Authorization: Bearer header and no access_token parameter is treated as
\* authenticated: it is not answered 'Unauthorized'.
C27_BearerHeaderAuthenticates ==
    \A s \in Answered :
        (/\ WellFormed(s) /\ MethodOf(s) \in AuthenticatedMethods
         /\ HeaderTokens(s) # {} /\ ParamTokens(s) = {})
        => ~AnsweredUnauthorized(s)

\* the slots whose handler has called the calendar service
Calling == {s \in 1..MaxInFlight : rpc[s].pc \in {"calling", "sent"}}

\* the user segments of the paths /users/{id}/... slot s has requested
UserSegments(s) == {rpc[s].calls[i].userId : i \in 1..Len(rpc[s].calls)}

\* C28: the user segment of the upstream path of a list_events or
\* create_event call is a user identifier, never the access token the caller
\* supplied.
C28_UserSegmentIsNotTheToken ==
    \A s \in Calling :
        UserSegments(s) \cap (HeaderTokens(s) \cup ParamTokens(s)) = {}

====
